---- MODULE Spec2Model ----
(***************************************************************************)
(* Temporal context intelligence core of WakeIQX: the causality engine     *)
(* (buildCausalChain), the memory manager (calculateMemoryTier,            *)
(* trackAccess, recalculateAllTiers, pruneExpiredContexts) and the         *)
(* propagation engine (calculatePredictionScore, isPredictionStale,        *)
(* updateProjectPredictions) over the context_snapshots table.             *)
(*                                                                         *)
(* Time is counted in ticks, TicksPerHour ticks to the hour, from the Unix *)
(* epoch (tick 0).  A JavaScript null is NULL = 0: it is falsy and counts  *)
(* as 0 in arithmetic, which is what `now - lastAccessed` does with it.    *)
(* Scores are kept as exact integers: a sub-score is in tenths (1.0 = 10), *)
(* a weight in tenths (0.4 = 4), a prediction score in hundredths.         *)
(***************************************************************************)
EXTENDS Integers, Sequences, FiniteSets, TLC

\* ------------------------------------------------------------------ bounds
\* Number of snapshot ids the store ever issues.
NumIds == 2
\* Resolution of the clock.
TicksPerHour == 2
\* Number of operations (clock advances included) in one behaviour.
MaxOps == 5
\* Number of memory manager operations in one behaviour of SpecMemory.
MaxMemoryOps == 8
\* Number of clock advances in one behaviour.
MaxTicks == 2
\* trackAccess is not taken on a snapshot whose accessCount reached this.
MaxAccess == 2
\* Number of operations in one behaviour of SpecQuery.
MaxQueryOps == 6
MaxLoadOps == 7
MaxInputOps == 5
MaxRetentionOps == 5
MaxPredictionOps == 5
NumCallers == 2
MaxTrackOps == 3
MaxCacheOps == 7
MaxTimers == 2
NumBatchIds == 3
MaxBatchOps == 2
\* Number of snapshot ids in the stores buildCausalChain is run on.
NumChainIds == 3
\* Largest accessCount of a snapshot handed to the pure functions.
MaxProbeCount == 11
\* Largest number of children of a snapshot handed to the pure functions.
MaxChildren == 2
\* Ages handed to the pure functions lie within this many ticks of a threshold.
ProbeSlack == 1

\* ------------------------------------------------------- program constants
NULL == 0

\* Tier thresholds, in hours since the last access.
ActiveHours == 1
RecentHours == 24
ArchivedDays == 30
ArchivedHours == 24 * ArchivedDays

\* Temporal score thresholds (hours) and values (tenths).
TemporalJustHours == 1
TemporalVeryRecentHours == 6
TemporalRecentHours == 24
TemporalWeekHours == 168
TemporalJust == 10
TemporalVeryRecent == 8
TemporalRecent == 5
TemporalWeek == 3
TemporalOld == 1

\* Causal score values (tenths).
CausalRoot == 10
CausalBranch == 8
CausalDecision == 9
CausalLeaf == 3
CausalDefault == 5

\* Frequency score thresholds (access counts) and values (tenths).
FrequencyHighCount == 10
FrequencyModerateCount == 5
FrequencyLightCount == 2
FrequencyHigh == 10
FrequencyModerate == 7
FrequencyLight == 4
FrequencyRare == 2

\* Weights of the three sub-scores (tenths).
TemporalWeight == 4
CausalWeight == 3
FrequencyWeight == 3

\* Defaults of getHighValueContexts: minScore (hundredths) and limit.
DefaultMinScore == 60
DefaultHighValueLimit == 5

\* Age (hours) in the query that finds stale predictions.
StaleQueryHours == 24
DefaultLoadLimit == 1

\* Number of rows getMemoryStats reads at most.
StatsLimit == 1000

\* Default stale threshold of a prediction (hours).
DefaultStaleThreshold == 24

Ids == 1 .. NumIds
Projects == {"A", "B"}
\* recalculateAllTiers() without a project
AllProjects == "*"
\* pruneExpiredContexts() without a limit
NoLimit == NumIds + 1
Tiers == {"active", "recent", "archived", "expired"}
ActionTypes == {"conversation", "decision"}
\* action_type of a row saved without causality metadata (SQL NULL)
NoActionType == "null"

\* The clock starts more than 30 days after the epoch.
StartTime == (ArchivedHours + 1) * TicksPerHour

\* -------------------------------------------------------- memory manager

\* calculateMemoryTier without its first line: null counts as the epoch.
calculateMemoryTierNullAsEpoch(lastAccessed, now) ==
  IF now - lastAccessed < ActiveHours * TicksPerHour THEN "active"
  ELSE IF now - lastAccessed < RecentHours * TicksPerHour THEN "recent"
  ELSE IF now - lastAccessed < ArchivedHours * TicksPerHour THEN "archived"
  ELSE "expired"

\* calculateMemoryTier with the boundaries on the wrong side (<= for <).
calculateMemoryTierInclusive(lastAccessed, now) ==
  IF lastAccessed = NULL THEN "archived"
  ELSE IF now - lastAccessed <= ActiveHours * TicksPerHour THEN "active"
  ELSE IF now - lastAccessed <= RecentHours * TicksPerHour THEN "recent"
  ELSE IF now - lastAccessed <= ArchivedHours * TicksPerHour THEN "archived"
  ELSE "expired"

\* calculateMemoryTier(lastAccessed, now)
calculateMemoryTier(lastAccessed, now) ==
  IF lastAccessed = NULL THEN "archived"
  ELSE IF now - lastAccessed < ActiveHours * TicksPerHour THEN "active"
  ELSE IF now - lastAccessed < RecentHours * TicksPerHour THEN "recent"
  ELSE IF now - lastAccessed < ArchivedHours * TicksPerHour THEN "archived"
  ELSE "expired"

\* ----------------------------------------------------- propagation engine

calculateTemporalScore(lastAccessed, now) ==
  IF now - lastAccessed < TemporalJustHours * TicksPerHour THEN TemporalJust
  ELSE IF now - lastAccessed < TemporalVeryRecentHours * TicksPerHour THEN TemporalVeryRecent
  ELSE IF now - lastAccessed < TemporalRecentHours * TicksPerHour THEN TemporalRecent
  ELSE IF now - lastAccessed < TemporalWeekHours * TicksPerHour THEN TemporalWeek
  ELSE TemporalOld

\* The causal position of a snapshot: isRootCause, hasMultipleChildren,
\* isDecisionNode, isLeafNode, with children the number of snapshots that
\* name it in causedBy.
isRootCause(causedBy) == causedBy = NULL
hasMultipleChildren(children) == children >= 2
isDecisionNode(actionType) == actionType = "decision"
isLeafNode(children) == children = 0

calculateCausalScore(causedBy, actionType, children) ==
  IF isRootCause(causedBy) THEN CausalRoot
  ELSE IF hasMultipleChildren(children) THEN CausalBranch
  ELSE IF isDecisionNode(actionType) THEN CausalDecision
  ELSE IF isLeafNode(children) THEN CausalLeaf
  ELSE CausalDefault

\* calculateFrequencyScore with the counts on the wrong side (> for >=).
calculateFrequencyScoreStrict(accessCount) ==
  IF accessCount > FrequencyHighCount THEN FrequencyHigh
  ELSE IF accessCount > FrequencyModerateCount THEN FrequencyModerate
  ELSE IF accessCount > FrequencyLightCount THEN FrequencyLight
  ELSE FrequencyRare

calculateFrequencyScore(accessCount) ==
  IF accessCount >= FrequencyHighCount THEN FrequencyHigh
  ELSE IF accessCount >= FrequencyModerateCount THEN FrequencyModerate
  ELSE IF accessCount >= FrequencyLightCount THEN FrequencyLight
  ELSE FrequencyRare

\* predictionScore, in hundredths
weightedScore(temporalScore, causalScore, frequencyScore) ==
  temporalScore * TemporalWeight + causalScore * CausalWeight
    + frequencyScore * FrequencyWeight

\* isPredictionStale without the check: every prediction counts as stale.
isPredictionStaleAlways(lastPredicted, threshold, now) == TRUE

\* isPredictionStale that takes a prediction for stale an hour early.
isPredictionStaleEarly(lastPredicted, threshold, now) ==
  IF lastPredicted = NULL THEN TRUE
  ELSE now - lastPredicted >= (threshold - 1) * TicksPerHour

\* isPredictionStale(lastPredicted, threshold), with Date.now() = now
isPredictionStale(lastPredicted, threshold, now) ==
  IF lastPredicted = NULL THEN TRUE
  ELSE now - lastPredicted >= threshold * TicksPerHour

\* ------------------------------------------------------------------ state
VARIABLES
  store,       \* context_snapshots: id -> row, for the ids that exist
  now,         \* the clock, in ticks since the epoch
  nextId,      \* the next id save_context issues (ids are never reused)
  ops,         \* operations so far
  budget,      \* operations one behaviour may take
  ticks,       \* clock advances so far
  last,        \* the last operation, its arguments and its result
  call,        \* the frame of the buildCausalChain call in progress
  probe,       \* a snapshot handed to the pure functions, and their results
  calls,       \* the trackAccess calls of concurrent callers
  cache,       \* the Map of a caching repository: id -> what findById saw
  player       \* the refs of the playground player and its pending timers

vars ==
  <<store, now, nextId, ops, budget, ticks, last, call, probe, calls, cache,
    player>>

\* A row inserted as if it had been accessed once already.
newSnapshotAccessed(project, causedBy, actionType) ==
  [ project |-> project, causedBy |-> causedBy, actionType |-> actionType,
    tier |-> "active", lastAccessed |-> NULL, accessCount |-> 1,
    predictionScore |-> NULL, lastPredicted |-> NULL,
    propagationReasons |-> <<>> ]

\* A row inserted with the tier of a row that was never accessed.
newSnapshotArchived(project, causedBy, actionType) ==
  [ project |-> project, causedBy |-> causedBy, actionType |-> actionType,
    tier |-> "archived", lastAccessed |-> NULL, accessCount |-> 0,
    predictionScore |-> NULL, lastPredicted |-> NULL,
    propagationReasons |-> <<>> ]

\* A row as save_context inserts it: the column defaults of the schema.
newSnapshot(project, causedBy, actionType) ==
  [ project |-> project,
    causedBy |-> causedBy,
    actionType |-> actionType,
    tier |-> "active",
    lastAccessed |-> NULL,
    accessCount |-> 0,
    predictionScore |-> NULL,
    lastPredicted |-> NULL,
    propagationReasons |-> <<>> ]

\* The record of an operation: its name, arguments and result; again says
\* that the operation before it was the same one with the same project and
\* the same number argument, and prevResult is then that operation's result.
sameCall(op, project, n) == last.op = op /\ last.project = project /\ last.n = n

opRecord(op, id, project, n, result) ==
  [op |-> op, id |-> id, project |-> project, n |-> n, result |-> result,
   again |-> sameCall(op, project, n),
   prevResult |-> IF sameCall(op, project, n) THEN last.result ELSE 0]

\* ------------------------------------------------------------- repository

findById(s, id) == IF id \in DOMAIN s THEN s[id] ELSE NULL

inScope(s, project) ==
  {id \in DOMAIN s : project = AllProjects \/ s[id].project = project}

\* updateAccessTracking that also writes the tier column.
updateAccessTrackingAndTier(s, id, t) ==
  [s EXCEPT ![id].lastAccessed = t, ![id].accessCount = @ + 1,
            ![id].tier = "active"]

\* UPDATE context_snapshots SET last_accessed = datetime('now'),
\*   access_count = access_count + 1 WHERE id = ?
updateAccessTracking(s, id, t) ==
  [s EXCEPT ![id].lastAccessed = t, ![id].accessCount = @ + 1]

\* An update of the tier that deletes the row once it is EXPIRED.
updateTierOrExpire(s, id, tier) ==
  IF tier = "expired" THEN [i \in DOMAIN s \ {id} |-> s[i]]
  ELSE [s EXCEPT ![id].tier = tier]

\* updateTier whose write never reaches the table.
updateTierLost(s, id, tier) == s

\* repository.updateTier(id, tier)
updateTier(s, id, tier) == [s EXCEPT ![id].tier = tier]

\* Number of snapshots that name id in causedBy.
childCount(s, id) == Cardinality({c \in DOMAIN s : s[c].causedBy = id})

\* ----------------------------------------------------- propagation engine

calculatePredictionScore(s, id, t) ==
  weightedScore(calculateTemporalScore(s[id].lastAccessed, t),
                calculateCausalScore(s[id].causedBy, s[id].actionType,
                                     childCount(s, id)),
                calculateFrequencyScore(s[id].accessCount))

calculatePropagationReasons(s, id, t) ==
  (IF t - s[id].lastAccessed < RecentHours * TicksPerHour
     THEN <<"recently_accessed">> ELSE <<>>)
  \o (IF s[id].causedBy = NULL THEN <<"causal_chain_root">> ELSE <<>>)
  \o (IF s[id].accessCount >= FrequencyHighCount
        THEN <<"high_access_frequency">> ELSE <<>>)
  \o (IF s[id].tier = "active" THEN <<"active_memory_tier">> ELSE <<>>)
  \o (IF s[id].actionType = "decision" THEN <<"decision_node">> ELSE <<>>)

\* The UPDATE without last_predicted: the score is written, its time is not.
recalculatePredictionUnstamped(s, id, t) ==
  [s EXCEPT ![id].predictionScore = calculatePredictionScore(s, id, t),
            ![id].propagationReasons = calculatePropagationReasons(s, id, t)]

\* UPDATE context_snapshots SET prediction_score, last_predicted,
\*   propagation_reason WHERE id = ?
recalculatePrediction(s, id, t) ==
  [s EXCEPT ![id].predictionScore = calculatePredictionScore(s, id, t),
            ![id].lastPredicted = t,
            ![id].propagationReasons = calculatePropagationReasons(s, id, t)]

stalePredictions(s, project, threshold, t) ==
  {id \in DOMAIN s : s[id].project = project
                     /\ isPredictionStale(s[id].lastPredicted, threshold, t)}

\* ---------------------------------------------------------------- actions

\* No operation has run.
noCall ==
  /\ ops = 0
  /\ ticks = 0
  /\ last = [op |-> "init", id |-> NULL, project |-> AllProjects, n |-> 0,
             result |-> 0, again |-> FALSE, prevResult |-> 0]
  /\ call = [pc |-> "idle", snapshotId |-> NULL, currentId |-> NULL,
             visited |-> {}, chain |-> <<>>, depth |-> 0]
  /\ calls = <<>>
  /\ cache = <<>>
  /\ player = [selectedScenario |-> "null", currentMessageIndex |-> 0,
               isPlaying |-> FALSE, timers |-> 0, nextCalled |-> FALSE]

\* No snapshot is under the pure functions.
noProbe ==
  probe = [id |-> NULL, tier |-> "none", scored |-> FALSE, temporalScore |-> 0,
           causalScore |-> 0, frequencyScore |-> 0, predictionScore |-> 0,
           explained |-> FALSE, reasons |-> <<>>]

\* The table is empty and no operation has run.
emptyStore ==
  /\ store = <<>>
  /\ now = StartTime
  /\ nextId = 1
  /\ noCall
  /\ noProbe

Init == emptyStore /\ budget = MaxOps

InitMemory == emptyStore /\ budget = MaxMemoryOps

InitQuery == emptyStore /\ budget = MaxQueryOps

InitLoad == emptyStore /\ budget = MaxLoadOps

InitInput == emptyStore /\ budget = MaxInputOps

InitRetention == emptyStore /\ budget = MaxRetentionOps

InitPrediction == emptyStore /\ budget = MaxPredictionOps

InitTrack == emptyStore /\ budget = MaxTrackOps

InitCache == emptyStore /\ budget = MaxCacheOps

\* One more operation is counted against the budget.
countOp ==
  /\ ops < budget
  /\ ops' = ops + 1
  /\ UNCHANGED <<budget, call, probe, calls, cache, player>>

\* save_context({project, content}): a new row under a fresh id, with the
\* schema's defaults and no causality metadata.
SaveContext ==
  /\ countOp
  /\ nextId <= NumIds
  /\ \E project \in Projects :
       /\ store' = store @@ (nextId :> newSnapshot(project, NULL, NoActionType))
       /\ last' = opRecord("save", nextId, project, 0, 0)
  /\ nextId' = nextId + 1
  /\ UNCHANGED <<now, ticks>>

\* save_context({project, content, metadata: {actionType, causedBy}}):
\* causedBy is given by the caller: none, or an id issued earlier.
SaveContextWithMetadata ==
  /\ countOp
  /\ nextId <= NumIds
  /\ \E project \in Projects, causedBy \in 0 .. (nextId - 1),
        actionType \in ActionTypes :
       /\ store' = store @@ (nextId :> newSnapshot(project, causedBy, actionType))
       /\ last' = opRecord("save", nextId, project, 0, 0)
  /\ nextId' = nextId + 1
  /\ UNCHANGED <<now, ticks>>

\* A clock that can also be set back an hour.
ClockStepsOrBack ==
  {ActiveHours * TicksPerHour, -(ActiveHours * TicksPerHour)}

\* The clock advances: an hour, a day, thirty days.
ClockSteps ==
  {ActiveHours * TicksPerHour, RecentHours * TicksPerHour,
   ArchivedHours * TicksPerHour}

Tick ==
  /\ countOp
  /\ ticks < MaxTicks
  /\ ticks' = ticks + 1
  /\ \E d \in ClockSteps : now' = now + d
  /\ last' = opRecord("tick", NULL, AllProjects, 0, 0)
  /\ UNCHANGED <<store, nextId>>

\* trackAccess(snapshotId)
TrackAccess ==
  /\ countOp
  /\ \E id \in DOMAIN store :
       /\ store[id].accessCount < MaxAccess
       /\ store' = updateAccessTracking(store, id, now)
       /\ last' = opRecord("trackAccess", id, store[id].project, 0, 0)
  /\ UNCHANGED <<now, nextId, ticks>>

\* loadContextWithTracking(id) on a row that exists: the row is read, the
\* access is tracked, and the tier computed from the lastAccessed that was
\* read is written when it differs from the tier that was read.
loadContextWithTracking(s, id, t) ==
  LET context == s[id]
      tracked == updateAccessTracking(s, id, t)
      tier == calculateMemoryTier(context.lastAccessed, t)
  IN IF tier # context.tier THEN updateTier(tracked, id, tier) ELSE tracked

LoadContext ==
  /\ countOp
  /\ \E id \in DOMAIN store :
       /\ store[id].accessCount < MaxAccess
       /\ store' = loadContextWithTracking(store, id, now)
       /\ last' = opRecord("loadContext", id, store[id].project, 0, 0)
  /\ UNCHANGED <<now, nextId, ticks>>

\* The rows with an outdated tier in every project, whatever the filter.
tierChangedAnyProject(s, project, t) ==
  {id \in DOMAIN s : calculateMemoryTier(s[id].lastAccessed, t) # s[id].tier}

\* The rows recalculateAllTiers rewrites: those whose persisted tier differs
\* from calculateMemoryTier(lastAccessed, now).
tierChanged(s, project, t) ==
  {id \in inScope(s, project) :
     calculateMemoryTier(s[id].lastAccessed, t) # s[id].tier}

RECURSIVE updateTiers(_, _, _)
updateTiers(s, ids, t) ==
  IF ids = {} THEN s
  ELSE LET id == CHOOSE i \in ids : TRUE
       IN updateTiers(updateTier(s, id, calculateMemoryTier(s[id].lastAccessed, t)),
                      ids \ {id}, t)

\* recalculateAllTiers(project?)
RecalculateAllTiers ==
  /\ countOp
  /\ \E project \in Projects \cup {AllProjects} :
       /\ store' = updateTiers(store, tierChanged(store, project, now), now)
       /\ last' = opRecord("recalculateAllTiers", NULL, project, 0,
                           Cardinality(tierChanged(store, project, now)))
  /\ UNCHANGED <<now, nextId, ticks>>

\* The rows DELETE ... WHERE memory_tier = 'expired' selects.
expiredRows(s) == {id \in DOMAIN s : s[id].tier = "expired"}

\* ORDER BY last_accessed ASC NULLS FIRST LIMIT ?: the sets of rows the
\* statement may delete (rows with equal last_accessed come in any order).
pruneChoices(s, limit) ==
  {D \in SUBSET expiredRows(s) :
     /\ Cardinality(D) = IF limit < Cardinality(expiredRows(s))
                           THEN limit ELSE Cardinality(expiredRows(s))
     /\ \A d \in D, c \in expiredRows(s) \ D :
          s[d].lastAccessed <= s[c].lastAccessed}

\* A DELETE that removes nothing (the rows are only selected).
deleteRowsLost(s, D) == s

deleteRows(s, D) == [id \in DOMAIN s \ D |-> s[id]]

\* pruneExpiredContexts(limit?)
PruneExpiredContexts ==
  /\ countOp
  /\ \E limit \in (1 .. (NumIds - 1)) \cup {NoLimit} :
       \E D \in pruneChoices(store, limit) :
         /\ store' = deleteRows(store, D)
         /\ last' = opRecord("pruneExpiredContexts", NULL, AllProjects, limit,
                             Cardinality(D))
  /\ UNCHANGED <<now, nextId, ticks>>

\* A loop over the stale rows that scores none of them.
recalculatePredictionsNone(s, ids, t) == s

RECURSIVE recalculatePredictions(_, _, _)
recalculatePredictions(s, ids, t) ==
  IF ids = {} THEN s
  ELSE LET id == CHOOSE i \in ids : TRUE
       IN recalculatePredictions(recalculatePrediction(s, id, t), ids \ {id}, t)

StaleThresholds == {ActiveHours, DefaultStaleThreshold}

\* updateProjectPredictions(project, staleThreshold)
UpdateProjectPredictions ==
  /\ countOp
  /\ \E project \in Projects, threshold \in StaleThresholds :
       /\ store' = recalculatePredictions(
                     store, stalePredictions(store, project, threshold, now), now)
       /\ last' = opRecord("updateProjectPredictions", NULL, project, threshold,
                           Cardinality(stalePredictions(store, project, threshold, now)))
  /\ UNCHANGED <<now, nextId, ticks>>

\* ---------------------------------------------------------------- queries

\* reconstructReasoning without the throw: a missing snapshot is explained
\* like one without causality metadata.
reasoningOrSummary(s, id) ==
  [status |-> "ok",
   actionType |-> IF id \in DOMAIN s THEN s[id].actionType ELSE NoActionType]

\* What reconstructReasoning(snapshotId) gives: the explanation of the row,
\* or the error thrown when the row is not found.
reasoning(s, id) ==
  IF id \notin DOMAIN s THEN [status |-> "NotFound"]
  ELSE [status |-> "ok", actionType |-> s[id].actionType]

\* reconstructReasoning(snapshotId), for any id, issued or not.
ReconstructReasoning ==
  /\ countOp
  /\ \E id \in Ids :
       last' = opRecord("reconstructReasoning", id, AllProjects, 0,
                        reasoning(store, id))
  /\ UNCHANGED <<store, now, nextId, ticks>>

\* repository.findByProject(project, limit): the sets of rows it may return,
\* limit of the project's rows when there are more.
findByProject(s, project, limit) ==
  {D \in SUBSET inScope(s, project) :
     Cardinality(D) = IF limit < Cardinality(inScope(s, project))
                        THEN limit ELSE Cardinality(inScope(s, project))}

\* The counting loop of getMemoryStats over the rows read.
memoryStats(s, contexts) ==
  [total |-> Cardinality(contexts),
   active |-> Cardinality({id \in contexts : s[id].tier = "active"}),
   recent |-> Cardinality({id \in contexts : s[id].tier = "recent"}),
   archived |-> Cardinality({id \in contexts : s[id].tier = "archived"}),
   expired |-> Cardinality({id \in contexts : s[id].tier = "expired"})]

\* getMemoryStats(project)
GetMemoryStats ==
  /\ countOp
  /\ \E project \in Projects :
       \E contexts \in findByProject(store, project, StatsLimit) :
         last' = opRecord("getMemoryStats", NULL, project, 0,
                          memoryStats(store, contexts))
  /\ UNCHANGED <<store, now, nextId, ticks>>

\* SELECT * FROM context_snapshots WHERE project = ? AND (last_predicted IS
\*   NULL OR last_predicted < datetime('now', '-24 hours'))
findStalePredictions(s, project, t) ==
  {id \in inScope(s, project) :
     \/ s[id].lastPredicted = NULL
     \/ s[id].lastPredicted < t - StaleQueryHours * TicksPerHour}

\* The query that finds the stale predictions of a project is run.
FindStalePredictions ==
  /\ countOp
  /\ \E project \in Projects :
       last' = opRecord("findStalePredictions", NULL, project, StaleQueryHours,
                        findStalePredictions(store, project, now))
  /\ UNCHANGED <<store, now, nextId, ticks>>

\* WHERE project = ? AND prediction_score >= ?, with no test that a score
\* was ever computed.
highValueOrUnscored(s, project, minScore) ==
  {id \in inScope(s, project) : s[id].predictionScore >= minScore}

\* WHERE project = ? AND prediction_score >= ?: a NULL score compares to
\* nothing.
highValue(s, project, minScore) ==
  {id \in inScope(s, project) :
     s[id].predictionScore # NULL /\ s[id].predictionScore >= minScore}

\* ORDER BY prediction_score DESC LIMIT ?: the lists the query may return
\* (rows of equal score come in any order).
highValueLists(s, project, minScore, limit) ==
  LET rows == highValue(s, project, minScore)
      n == IF limit < Cardinality(rows) THEN limit ELSE Cardinality(rows)
  IN {q \in [1 .. n -> rows] :
        /\ \A i, j \in 1 .. n : q[i] = q[j] => i = j
        /\ \A i, j \in 1 .. n :
             i < j => s[q[i]].predictionScore >= s[q[j]].predictionScore
        /\ \A o \in rows \ {q[i] : i \in 1 .. n} :
             \A i \in 1 .. n : s[q[i]].predictionScore >= s[o].predictionScore}

MinScores == {0, DefaultMinScore}
HighValueLimits == {1, DefaultHighValueLimit}

\* getHighValueContexts(project, minScore, limit)
GetHighValueContexts ==
  /\ countOp
  /\ \E project \in Projects, minScore \in MinScores, limit \in HighValueLimits :
       \E q \in highValueLists(store, project, minScore, limit) :
         last' = opRecord("getHighValueContexts", minScore, project, limit, q)
  /\ UNCHANGED <<store, now, nextId, ticks>>

\* Every operation, MaxOps of them in a row.
Next ==
  \/ SaveContext
  \/ SaveContextWithMetadata
  \/ Tick
  \/ TrackAccess
  \/ LoadContext
  \/ RecalculateAllTiers
  \/ PruneExpiredContexts
  \/ UpdateProjectPredictions

Spec == Init /\ [][Next]_vars

\* The operations of the memory manager alone, MaxMemoryOps of them in a row.
NextMemory ==
  \/ SaveContext
  \/ Tick
  \/ TrackAccess
  \/ RecalculateAllTiers
  \/ PruneExpiredContexts

SpecMemory == InitMemory /\ [][NextMemory]_vars

\* The operations that write the table, and the queries that read it,
\* MaxQueryOps of them in a row.
NextQuery ==
  \/ SaveContext
  \/ Tick
  \/ TrackAccess
  \/ RecalculateAllTiers
  \/ PruneExpiredContexts
  \/ UpdateProjectPredictions
  \/ ReconstructReasoning
  \/ GetMemoryStats
  \/ FindStalePredictions
  \/ GetHighValueContexts

SpecQuery == InitQuery /\ [][NextQuery]_vars

\* ------------------------------------------------------------ load_context

\* ORDER BY timestamp ASC: the oldest row first.
RECURSIVE orderByTimestampAsc(_)
orderByTimestampAsc(ids) ==
  IF ids = {} THEN <<>>
  ELSE LET m == CHOOSE i \in ids : \A j \in ids : i <= j
       IN <<m>> \o orderByTimestampAsc(ids \ {m})

\* ORDER BY timestamp DESC. Ids are issued in the order of creation, and a
\* timestamp is finer than a tick of the clock, so the order of the ids is
\* the order of the creation timestamps.
RECURSIVE orderByTimestampDesc(_)
orderByTimestampDesc(ids) ==
  IF ids = {} THEN <<>>
  ELSE LET m == CHOOSE i \in ids : \A j \in ids : j <= i
       IN <<m>> \o orderByTimestampDesc(ids \ {m})

\* SELECT * FROM context_snapshots WHERE project = ?
\* ORDER BY timestamp DESC LIMIT ?: the ids of the rows, in order.
selectByProject(s, project, limit) ==
  LET rows == orderByTimestampDesc(inScope(s, project))
  IN SubSeq(rows, 1, IF limit < Len(rows) THEN limit ELSE Len(rows))

\* The rows as they were read: what the caller is handed.
RECURSIVE contextsRead(_, _)
contextsRead(s, rows) ==
  IF rows = <<>> THEN <<>>
  ELSE <<[id |-> Head(rows), tier |-> s[Head(rows)].tier]>>
         \o contextsRead(s, Tail(rows))

\* loadContextWithTracking on each row that was selected.
RECURSIVE trackRows(_, _, _)
trackRows(s, rows, t) ==
  IF rows = <<>> THEN s
  ELSE trackRows(loadContextWithTracking(s, Head(rows), t), Tail(rows), t)

LoadLimits == {DefaultLoadLimit, NumIds}

\* load_context({project, limit})
load_context ==
  /\ countOp
  /\ \E project \in Projects, limit \in LoadLimits :
       LET rows == selectByProject(store, project, limit)
       IN /\ \A i \in 1 .. Len(rows) : store[rows[i]].accessCount < MaxAccess
          /\ store' = trackRows(store, rows, now)
          /\ last' = opRecord("load_context", NULL, project, limit,
                              contextsRead(store, rows))
  /\ UNCHANGED <<now, nextId, ticks>>

NextLoad ==
  \/ SaveContext
  \/ Tick
  \/ TrackAccess
  \/ RecalculateAllTiers
  \/ load_context

SpecLoad == InitLoad /\ [][NextLoad]_vars

\* A limit that is not a number of rows.
InvalidLimits == {-1}

\* load_context({project, limit: -1}): "Error or defaults to 1". Either the
\* call fails, or it runs as load_context with the default limit.
load_context_invalid_limit ==
  /\ countOp
  /\ \E project \in Projects, limit \in InvalidLimits :
       \/ /\ store' = store
          /\ last' = opRecord("InvalidInput", NULL, project, limit, <<>>)
       \/ LET rows == selectByProject(store, project, DefaultLoadLimit)
          IN /\ \A i \in 1 .. Len(rows) : store[rows[i]].accessCount < MaxAccess
             /\ store' = trackRows(store, rows, now)
             /\ last' = opRecord("load_context", NULL, project, limit,
                                 contextsRead(store, rows))
  /\ UNCHANGED <<now, nextId, ticks>>

NextInput ==
  \/ SaveContext
  \/ Tick
  \/ load_context
  \/ load_context_invalid_limit

SpecInput == InitInput /\ [][NextInput]_vars

\* The thresholds a caller may pass: any number of hours from 0.
ValidStaleThresholds == {0} \cup StaleThresholds

\* updateProjectPredictions(project, staleThreshold) with any valid
\* threshold.
UpdateProjectPredictionsValid ==
  /\ countOp
  /\ \E project \in Projects, threshold \in ValidStaleThresholds :
       /\ store' = recalculatePredictions(
                     store, stalePredictions(store, project, threshold, now), now)
       /\ last' = opRecord("updateProjectPredictions", NULL, project, threshold,
                           Cardinality(stalePredictions(store, project, threshold, now)))
  /\ UNCHANGED <<now, nextId, ticks>>

NextPrediction ==
  \/ SaveContext
  \/ Tick
  \/ TrackAccess
  \/ UpdateProjectPredictionsValid

SpecPrediction == InitPrediction /\ [][NextPrediction]_vars

\* Every operation that writes, the clock, and queries: what can and what
\* cannot remove a row.
NextRetention ==
  \/ SaveContext
  \/ Tick
  \/ TrackAccess
  \/ load_context
  \/ RecalculateAllTiers
  \/ UpdateProjectPredictions
  \/ PruneExpiredContexts
  \/ ReconstructReasoning
  \/ GetMemoryStats

SpecRetention == InitRetention /\ [][NextRetention]_vars

\* ------------------------------------------------- concurrent trackAccess

Callers == 1 .. NumCallers

\* An access written from the row the caller read before: the count read,
\* plus one.
trackAccessFromRead(s, id, t, context) ==
  [s EXCEPT ![id].lastAccessed = t,
            ![id].accessCount = context.accessCount + 1]

\* memoryManager.trackAccess(id): the one UPDATE, which increments the
\* count in the table whatever the caller read before.
trackAccess(s, id, t, context) == updateAccessTracking(s, id, t)

\* const context = await repository.findById(id), by a caller with no call
\* in progress, for a row that exists.
FindByIdThenTrack ==
  /\ \E c \in Callers \ DOMAIN calls, id \in DOMAIN store :
       calls' = calls @@ (c :> [pc |-> "found", id |-> id,
                               context |-> store[id], at |-> NULL])
  /\ UNCHANGED <<store, now, nextId, ops, budget, ticks, last, call, probe,
                 cache, player>>

\* await memoryManager.trackAccess(id): the UPDATE reaches the store.
TrackAccessUpdate ==
  /\ \E c \in DOMAIN calls :
       /\ calls[c].pc = "found"
       /\ store' = trackAccess(store, calls[c].id, now, calls[c].context)
       /\ calls' = [calls EXCEPT ![c].pc = "done", ![c].at = now]
  /\ UNCHANGED <<now, nextId, ops, budget, ticks, last, call, probe, cache,
                 player>>

NextTrack ==
  \/ SaveContext
  \/ Tick
  \/ FindByIdThenTrack
  \/ TrackAccessUpdate

SpecTrack == InitTrack /\ [][NextTrack]_vars

\* ---------------------------------------------------- caching repository

\* const snapshot = await this.db.query(...): the row, or null.
queryById(s, id) ==
  IF id \in DOMAIN s
    THEN [found |-> TRUE, lastAccessed |-> s[id].lastAccessed,
          accessCount |-> s[id].accessCount]
    ELSE [found |-> FALSE, lastAccessed |-> NULL, accessCount |-> 0]

\* findById(id) of the repository with 'private cache = new Map()': what
\* the Map holds for id, or else the row queried, which the Map then holds.
\* No other method of the repository touches the Map.
FindByIdCached ==
  /\ ops < budget
  /\ ops' = ops + 1
  /\ \E id \in Ids :
       IF id \in DOMAIN cache
         THEN /\ last' = opRecord("findById", id, AllProjects, 0, cache[id])
              /\ cache' = cache
         ELSE /\ last' = opRecord("findById", id, AllProjects, 0,
                                  queryById(store, id))
              /\ cache' = cache @@ (id :> queryById(store, id))
  /\ UNCHANGED <<store, now, nextId, budget, ticks, call, probe, calls, player>>

NextCache ==
  \/ SaveContext
  \/ Tick
  \/ TrackAccess
  \/ RecalculateAllTiers
  \/ PruneExpiredContexts
  \/ FindByIdCached

SpecCache == InitCache /\ [][NextCache]_vars

\* ------------------------------------------------- the playground player

\* The ids of playgroundScenarios.
Scenarios ==
  {"causal-chain", "memory-tiers", "future-prediction",
   "save-and-reconstruct", "search-patterns"}

\* scenario.messages.length of each scenario.
messagesLength(scenario) ==
  CASE scenario = "causal-chain" -> 5
    [] scenario = "memory-tiers" -> 5
    [] scenario = "future-prediction" -> 5
    [] scenario = "save-and-reconstruct" -> 10
    [] scenario = "search-patterns" -> 5

\* The component as mounted: no scenario, index 0, not playing, no timer.
InitPlayer == emptyStore /\ budget = 0

\* The player touches none of the engine's state.
playerOnly ==
  UNCHANGED <<store, now, nextId, ops, budget, ticks, last, call, probe,
              calls, cache>>

\* canAdvance: a scenario is selected and a later message exists.
canAdvance ==
  /\ player.selectedScenario # "null"
  /\ player.currentMessageIndex <
       messagesLength(player.selectedScenario) - 1

\* canRestart: the index is past the first message.
canRestart == player.currentMessageIndex > 0

\* A scenario card is clicked; the cards are rendered while no scenario is
\* selected.  Pending timers are not cleared.
selectScenario ==
  /\ player.selectedScenario = "null"
  /\ \E scenario \in Scenarios :
       player' = [player EXCEPT !.selectedScenario = scenario,
                                !.currentMessageIndex = 0,
                                !.isPlaying = FALSE,
                                !.nextCalled = FALSE]
  /\ playerOnly

\* "Next Step" is clicked: the button is rendered while canAdvance and is
\* disabled while isPlaying.  setTimeout queues one more callback.
nextMessage ==
  /\ canAdvance
  /\ ~player.isPlaying
  /\ player.timers < MaxTimers
  /\ player' = [player EXCEPT !.isPlaying = TRUE,
                              !.timers = @ + 1,
                              !.nextCalled = TRUE]
  /\ playerOnly

\* The callback queued by nextMessage runs, 300 ms after the click.
nextMessageCallback ==
  /\ player.timers > 0
  /\ player' = [player EXCEPT !.currentMessageIndex = @ + 1,
                              !.isPlaying = FALSE,
                              !.timers = @ - 1]
  /\ playerOnly

\* "Restart" is clicked; the button is rendered while canRestart.  Pending
\* timers are not cleared.
restart ==
  /\ player.selectedScenario # "null"
  /\ canRestart
  /\ player' = [player EXCEPT !.currentMessageIndex = 0,
                              !.isPlaying = FALSE,
                              !.nextCalled = FALSE]
  /\ playerOnly

\* "Back to Scenarios" or "Try Another" is clicked; the player is rendered
\* while a scenario is selected.  Pending timers are not cleared.
backToScenarios ==
  /\ player.selectedScenario # "null"
  /\ player' = [player EXCEPT !.selectedScenario = "null",
                              !.currentMessageIndex = 0,
                              !.isPlaying = FALSE,
                              !.nextCalled = FALSE]
  /\ playerOnly

NextPlayer ==
  \/ selectScenario
  \/ nextMessage
  \/ nextMessageCallback
  \/ restart
  \/ backToScenarios

SpecPlayer == InitPlayer /\ [][NextPlayer]_vars

\* ------------------------------------------------- batches that stop early

BatchIds == 1 .. NumBatchIds

\* A last access more than thirty days before StartTime.
batchOldAccess == StartTime - ArchivedHours * TicksPerHour - 1

\* The states a row can be in when a batch starts: never accessed and as
\* saved, or idle for more than thirty days with the tier it was saved with
\* or with the tier of the last recalculation.
batchRows ==
  {[newSnapshot(project, NULL, NoActionType) EXCEPT
      !.lastAccessed = r.lastAccessed, !.accessCount = r.accessCount,
      !.tier = r.tier] :
     project \in Projects,
     r \in {[lastAccessed |-> NULL, accessCount |-> 0, tier |-> "active"],
            [lastAccessed |-> batchOldAccess, accessCount |-> 1, tier |-> "active"],
            [lastAccessed |-> batchOldAccess, accessCount |-> 1, tier |-> "expired"]}}

\* NumBatchIds rows, the first two of project A, the first scored already
\* or not.
InitBatch ==
  /\ \E rows \in [BatchIds -> batchRows], scored \in {{}, {1}} :
       /\ rows[1].project = "A"
       /\ rows[2].project = "A"
       /\ store = recalculatePredictions(rows, scored, StartTime)
  /\ now = StartTime
  /\ nextId = NumBatchIds + 1
  /\ budget = MaxBatchOps
  /\ noCall
  /\ noProbe

\* The units of work a run stopped between two units has done: some, not
\* all, of the units of the run.
unitsDone(units) == {P \in SUBSET units : P # {} /\ P # units}

\* await Promise.all(batch.map(ctx => updateTier(ctx))) when updateTier
\* rejects for some rows: the other updates, already started, are written,
\* and the rejection of Promise.all is the outcome of recalculateAllTiers.
RecalculateAllTiersRejected ==
  /\ countOp
  /\ \E project \in Projects \cup {AllProjects} :
       \E failing \in SUBSET tierChanged(store, project, now) :
         /\ failing # {}
         /\ store' = updateTiers(store, tierChanged(store, project, now) \ failing, now)
         /\ last' = opRecord("recalculateAllTiers:rejected", NULL, project,
                             Cardinality(failing),
                             Cardinality(tierChanged(store, project, now) \ failing))
  /\ UNCHANGED <<now, nextId, ticks>>

\* recalculateAllTiers cancelled between two units of work.
RecalculateAllTiersCancelled ==
  /\ countOp
  /\ \E project \in Projects \cup {AllProjects} :
       \E P \in unitsDone(tierChanged(store, project, now)) :
         /\ store' = updateTiers(store, P, now)
         /\ last' = opRecord("recalculateAllTiers:cancelled", NULL, project, 0,
                             Cardinality(P))
  /\ UNCHANGED <<now, nextId, ticks>>

BatchLimits == 1 .. NumBatchIds

\* pruneExpiredContexts(limit) on a table of NumBatchIds rows.
PruneExpiredBatch ==
  /\ countOp
  /\ \E limit \in BatchLimits :
       \E D \in pruneChoices(store, limit) :
         /\ store' = deleteRows(store, D)
         /\ last' = opRecord("pruneExpiredContexts", NULL, AllProjects, limit,
                             Cardinality(D))
  /\ UNCHANGED <<now, nextId, ticks>>

\* pruneExpiredContexts(limit) cancelled between two units of work.
PruneExpiredContextsCancelled ==
  /\ countOp
  /\ \E limit \in BatchLimits :
       \E D \in pruneChoices(store, limit) :
         \E P \in unitsDone(D) :
           /\ store' = deleteRows(store, P)
           /\ last' = opRecord("pruneExpiredContexts:cancelled", NULL,
                               AllProjects, limit, Cardinality(P))
  /\ UNCHANGED <<now, nextId, ticks>>

\* updateProjectPredictions cancelled between two units of work.
UpdateProjectPredictionsCancelled ==
  /\ countOp
  /\ \E project \in Projects, threshold \in StaleThresholds :
       \E P \in unitsDone(stalePredictions(store, project, threshold, now)) :
         /\ store' = recalculatePredictions(store, P, now)
         /\ last' = opRecord("updateProjectPredictions:cancelled", NULL, project,
                             threshold, Cardinality(P))
  /\ UNCHANGED <<now, nextId, ticks>>

NextBatch ==
  \/ RecalculateAllTiers
  \/ PruneExpiredBatch
  \/ UpdateProjectPredictions
  \/ RecalculateAllTiersRejected
  \/ RecalculateAllTiersCancelled
  \/ PruneExpiredContextsCancelled
  \/ UpdateProjectPredictionsCancelled

SpecBatch == InitBatch /\ [][NextBatch]_vars

\* --------------------------------------------------------- pure functions

\* The thresholds of the tier and of the temporal score (hours).
ProbeHours ==
  {ActiveHours, TemporalVeryRecentHours, RecentHours, TemporalWeekHours,
   ArchivedHours}

\* Ages (ticks since the last access) at and around every threshold.
ProbeAges ==
  {0} \cup {h * TicksPerHour + k : h \in ProbeHours, k \in -ProbeSlack .. ProbeSlack}

\* Clock readings at which the pure functions are called.
ProbeClocks == {StartTime + h * TicksPerHour : h \in {0} \cup ProbeHours}

\* The id of the parent of a probed snapshot that has one.
probeParent == MaxChildren + 2

\* A table around snapshot 1: its children (ids from 2), and its parent when
\* it has one.
probeStore(lastAccessed, accessCount, causedBy, actionType, children) ==
  [id \in (1 .. (children + 1)) \cup (IF causedBy = NULL THEN {} ELSE {causedBy}) |->
     IF id = 1
       THEN [newSnapshot("A", causedBy, actionType) EXCEPT
               !.lastAccessed = lastAccessed, !.accessCount = accessCount]
     ELSE IF id = causedBy THEN newSnapshot("A", NULL, NoActionType)
     ELSE newSnapshot("A", 1, NoActionType)]

\* Snapshot 1 is any snapshot: never accessed (lastAccessed null, accessCount
\* 0) or accessed accessCount >= 1 times and last at any of the ages; a root
\* cause or not; of any action type; with any number of children.
InitProbe ==
  /\ \E clock \in ProbeClocks, age \in ProbeAges,
        accessCount \in 0 .. MaxProbeCount,
        causedBy \in {NULL, probeParent},
        actionType \in ActionTypes \cup {NoActionType},
        children \in 0 .. MaxChildren :
       /\ now = clock
       /\ store = probeStore(IF accessCount = 0 THEN NULL ELSE clock - age,
                             accessCount, causedBy, actionType, children)
  /\ nextId = probeParent + 1
  /\ budget = 0
  /\ noCall
  /\ probe = [id |-> 1, tier |-> "none", scored |-> FALSE, temporalScore |-> 0,
              causalScore |-> 0, frequencyScore |-> 0, predictionScore |-> 0,
              explained |-> FALSE, reasons |-> <<>>]

\* calculateMemoryTier(snapshot.lastAccessed) is evaluated.
CalculateMemoryTier ==
  /\ probe.tier = "none"
  /\ probe' = [probe EXCEPT
                 !.tier = calculateMemoryTier(store[probe.id].lastAccessed, now)]
  /\ UNCHANGED <<store, now, nextId, ops, budget, ticks, last, call, calls,
                 cache, player>>

\* calculatePredictionScore(snapshot) is evaluated; the three sub-scores it
\* weighs are kept beside the result.
CalculatePredictionScore ==
  /\ ~probe.scored
  /\ probe' = [probe EXCEPT
       !.scored = TRUE,
       !.temporalScore = calculateTemporalScore(store[probe.id].lastAccessed, now),
       !.causalScore = calculateCausalScore(store[probe.id].causedBy,
                                            store[probe.id].actionType,
                                            childCount(store, probe.id)),
       !.frequencyScore = calculateFrequencyScore(store[probe.id].accessCount),
       !.predictionScore = calculatePredictionScore(store, probe.id, now)]
  /\ UNCHANGED <<store, now, nextId, ops, budget, ticks, last, call, calls,
                 cache, player>>

\* calculatePropagationReasons(snapshot) is evaluated.
CalculatePropagationReasons ==
  /\ ~probe.explained
  /\ probe' = [probe EXCEPT
       !.explained = TRUE,
       !.reasons = calculatePropagationReasons(store, probe.id, now)]
  /\ UNCHANGED <<store, now, nextId, ops, budget, ticks, last, call, calls,
                 cache, player>>

NextProbe ==
  \/ CalculateMemoryTier
  \/ CalculatePredictionScore
  \/ CalculatePropagationReasons

SpecProbe == InitProbe /\ [][NextProbe]_vars

\* ------------------------------------------------------- buildCausalChain

ChainIds == 1 .. NumChainIds

\* Every table over ChainIds: a row is absent, a root cause, or names any id
\* (itself, a later one, an absent one) as its cause.
chainStores ==
  UNION { [D -> [causedBy : {NULL} \cup ChainIds]] : D \in SUBSET ChainIds }

chainStore(g) ==
  [id \in DOMAIN g |-> newSnapshot("A", g[id].causedBy, NoActionType)]

InitChain ==
  /\ \E g \in chainStores : store = chainStore(g)
  /\ now = StartTime
  /\ nextId = NumChainIds + 1
  /\ budget = 0
  /\ noCall
  /\ noProbe

\* while (currentId && !visited.has(currentId))
shouldContinueUnguarded(currentId, visited) == currentId # NULL

shouldContinue(currentId, visited) ==
  currentId # NULL /\ currentId \notin visited

\* chain.push(node): the node goes to the back.
push(chain, node) == chain \o <<node>>

\* chain.unshift(node): the node goes to the front.
unshift(chain, node) == <<node>> \o chain

\* buildCausalChain(snapshotId) is called: the locals before the loop.
BuildCausalChain ==
  /\ call.pc \in {"idle", "done"}
  /\ \E snapshotId \in ChainIds :
       call' = [pc |-> "loop", snapshotId |-> snapshotId,
                currentId |-> snapshotId, visited |-> {}, chain |-> <<>>,
                depth |-> 0]
  /\ UNCHANGED <<store, now, nextId, ops, budget, ticks, last, probe, calls,
                 cache, player>>

\* One iteration of the loop: the row is looked up; a missing row breaks out
\* of the loop, a found one goes to the front of the chain and the walk moves
\* to its cause.  No chain is longer than the table, so the depth guard never
\* holds an iteration back.
ChainStep ==
  /\ call.pc = "loop"
  /\ shouldContinue(call.currentId, call.visited)
  /\ call.depth <= Cardinality(DOMAIN store)
  /\ LET snapshot == findById(store, call.currentId) IN
       IF call.currentId \notin DOMAIN store   \* if (!snapshot) break
       THEN call' = [call EXCEPT !.pc = "done",
                                 !.visited = @ \cup {call.currentId}]
       ELSE call' = [call EXCEPT
                       !.visited = @ \cup {call.currentId},
                       !.chain = unshift(@, [id |-> call.currentId,
                                             depth |-> call.depth,
                                             causedBy |-> snapshot.causedBy]),
                       !.currentId = snapshot.causedBy,
                       !.depth = @ + 1]
  /\ UNCHANGED <<store, now, nextId, ops, budget, ticks, last, probe, calls,
                 cache, player>>

\* The loop condition fails: return chain.
ChainReturn ==
  /\ call.pc = "loop"
  /\ ~shouldContinue(call.currentId, call.visited)
  /\ call' = [call EXCEPT !.pc = "done"]
  /\ UNCHANGED <<store, now, nextId, ops, budget, ticks, last, probe, calls,
                 cache, player>>

NextChain ==
  \/ BuildCausalChain
  \/ ChainStep
  \/ ChainReturn

\* A call that was made runs on: each await resumes.
SpecChain ==
  /\ InitChain
  /\ [][NextChain]_vars
  /\ WF_vars(ChainStep)
  /\ WF_vars(ChainReturn)

\* ================================================================ claims

\* C1: every snapshot pruneExpiredContexts removes is one whose current
\* tier, calculateMemoryTier(lastAccessed, now) at the time of the call, is
\* EXPIRED; no snapshot that is currently ACTIVE, RECENT or ARCHIVED is
\* deleted (a snapshot that names a deleted one in causedBy included).
C1_PruneOnlyCurrentlyExpired ==
  [][last'.op = "pruneExpiredContexts" =>
       \A id \in DOMAIN store \ DOMAIN store' :
         calculateMemoryTier(store[id].lastAccessed, now) = "expired"]_vars

\* C2: for a snapshot that has been accessed, with h the hours from
\* lastAccessed to now, calculateMemoryTier gives a tier for every input, and
\* it is ACTIVE iff h < 1, RECENT iff 1 <= h < 24, ARCHIVED iff 24 <= h < 720
\* and EXPIRED iff h >= 720; so exactly 1, 24 and 720 hours are RECENT,
\* ARCHIVED and EXPIRED.
C2_TierBoundaries ==
  (probe.tier # "none" /\ store[probe.id].lastAccessed # NULL) =>
    LET age == now - store[probe.id].lastAccessed IN
      /\ probe.tier \in Tiers
      /\ probe.tier = "active" <=> age < 1 * TicksPerHour
      /\ probe.tier = "recent" <=>
           (1 * TicksPerHour <= age /\ age < 24 * TicksPerHour)
      /\ probe.tier = "archived" <=>
           (24 * TicksPerHour <= age /\ age < 720 * TicksPerHour)
      /\ probe.tier = "expired" <=> age >= 720 * TicksPerHour

C2_Witness ==
  /\ probe.tier = "archived"
  /\ store[probe.id].lastAccessed # NULL
  /\ now - store[probe.id].lastAccessed = 24 * TicksPerHour

\* C3: when the causedBy links from the queried snapshot lead, through rows
\* that all exist, to a root cause (so there is no cycle), the chain that
\* buildCausalChain returns is that lineage, root cause at index 0 and the
\* queried snapshot last, and the node at index i (0-based) has depth i.
C3_RootFirstDepthIsIndex ==
  LET lineages ==
        {p \in UNION {[1 .. n -> DOMAIN store] : n \in 1 .. NumChainIds} :
           /\ store[p[1]].causedBy = NULL
           /\ p[Cardinality(DOMAIN p)] = call.snapshotId
           /\ \A i \in DOMAIN p :
                i > 1 => store[p[i]].causedBy = p[i - 1]}
  IN call.pc = "done" =>
       \A p \in lineages :
         /\ Len(call.chain) = Cardinality(DOMAIN p)
         /\ \A i \in DOMAIN p :
              /\ call.chain[i].id = p[i]
              /\ call.chain[i].depth = i - 1

\* The causedBy links from the snapshot the call in progress was made for run
\* through existing rows back into a row already passed: a cycle (a row that
\* names itself included).
reachesCycle ==
  \E p \in UNION {[1 .. n -> DOMAIN store] : n \in 1 .. NumChainIds} :
    /\ p[1] = call.snapshotId
    /\ \A i \in DOMAIN p : i > 1 => store[p[i - 1]].causedBy = p[i]
    /\ store[p[Cardinality(DOMAIN p)]].causedBy \in {p[i] : i \in DOMAIN p}

C5_WeightedScoreInRange ==
  probe.scored =>
    LET row == store[probe.id]
        accessed == row.lastAccessed # NULL
        age == now - row.lastAccessed
        temporal == IF accessed /\ age < 1 * TicksPerHour THEN 10
                    ELSE IF accessed /\ age < 6 * TicksPerHour THEN 8
                    ELSE IF accessed /\ age < 24 * TicksPerHour THEN 5
                    ELSE IF accessed /\ age < 168 * TicksPerHour THEN 3
                    ELSE 1
        frequency == IF row.accessCount >= 10 THEN 10
                     ELSE IF row.accessCount >= 5 THEN 7
                     ELSE IF row.accessCount >= 2 THEN 4
                     ELSE 2
    IN /\ probe.temporalScore = temporal
       /\ probe.frequencyScore = frequency
       /\ probe.predictionScore =
            4 * temporal + 3 * probe.causalScore + 3 * frequency
       /\ probe.predictionScore >= 0
       /\ probe.predictionScore <= 100
       /\ (row.causedBy = NULL /\ accessed /\ age < 1 * TicksPerHour
             /\ row.accessCount >= 10) => probe.predictionScore >= 90

C5_Witness ==
  /\ probe.scored
  /\ store[probe.id].causedBy = NULL
  /\ store[probe.id].lastAccessed # NULL
  /\ now - store[probe.id].lastAccessed < 1 * TicksPerHour
  /\ store[probe.id].accessCount = 10
  /\ probe.predictionScore = 100

\* C6: the causal sub-score is 1.0 for a root cause whatever its action
\* type; otherwise 0.9 for a decision whatever its number of children;
\* otherwise 0.8 for a branch point (two or more children); otherwise 0.3
\* for a leaf; otherwise 0.5.
C6_DecisionBeforeBranch ==
  probe.scored =>
    LET row == store[probe.id]
        children == Cardinality({c \in DOMAIN store : store[c].causedBy = probe.id})
    IN probe.causalScore =
         IF row.causedBy = NULL THEN 10
         ELSE IF row.actionType = "decision" THEN 9
         ELSE IF children >= 2 THEN 8
         ELSE IF children = 0 THEN 3
         ELSE 5

\* C7: recalculateAllTiers run a second time right after a run with the
\* same scope returns 0 and leaves the store unchanged.
C7_RecalculateIdempotent ==
  [][(last'.op = "recalculateAllTiers" /\ last'.again) =>
       (last'.result = 0 /\ store' = store)]_vars

\* A second run right after a first run that changed the tier of a snapshot.
C7_Witness ==
  /\ last.op = "recalculateAllTiers"
  /\ last.again
  /\ last.prevResult >= 1
  /\ last.result = 0

C11_AccessCountMonotone ==
  [][/\ \A id \in DOMAIN store \cap DOMAIN store' :
          store'[id].accessCount >= store[id].accessCount
     /\ \A id \in DOMAIN store' \ DOMAIN store :
          store'[id].accessCount = 0]_vars

C11_Witness ==
  /\ last.op \in {"recalculateAllTiers", "updateProjectPredictions",
                   "pruneExpiredContexts"}
  /\ last.result >= 1
  /\ \E id \in DOMAIN store : store[id].accessCount = 2

C13_ThirtyDaysIdleIsExpired ==
  [][(last'.op = "tick" /\ now' - now >= 720 * TicksPerHour) =>
       \A id \in DOMAIN store :
         calculateMemoryTier(store'[id].lastAccessed, now') = "expired"]_vars

\* C14: when the causedBy links from an existing queried snapshot lead,
\* through rows that exist, to a row whose causedBy names a snapshot the
\* store does not hold, buildCausalChain returns (no error) the partial
\* chain: the row whose parent is missing at index 0, each next element the
\* one it caused, the queried snapshot last.
C14_MissingParentTruncates ==
  LET partial ==
        {p \in UNION {[1 .. n -> DOMAIN store] : n \in 1 .. NumChainIds} :
           /\ store[p[1]].causedBy # NULL
           /\ store[p[1]].causedBy \notin DOMAIN store
           /\ p[Cardinality(DOMAIN p)] = call.snapshotId
           /\ \A i \in DOMAIN p :
                i > 1 => store[p[i]].causedBy = p[i - 1]}
  IN call.pc = "done" =>
       \A p \in partial :
         /\ Len(call.chain) = Cardinality(DOMAIN p)
         /\ \A i \in DOMAIN p : call.chain[i].id = p[i]
         /\ call.chain[1].causedBy \notin DOMAIN store
         /\ call.chain[Len(call.chain)].id = call.snapshotId

C14_Witness ==
  /\ call.pc = "done"
  /\ Len(call.chain) >= 2
  /\ call.chain[1].causedBy # NULL
  /\ call.chain[1].causedBy \notin DOMAIN store
  /\ call.chain[Len(call.chain)].id = call.snapshotId

C16_StatsRecomputeTiers ==
  last.op = "getMemoryStats" =>
    LET rows == inScope(store, last.project)
        count(tier) ==
          Cardinality({id \in rows :
                         calculateMemoryTier(store[id].lastAccessed, now) = tier})
    IN /\ last.result.active = count("active")
       /\ last.result.recent = count("recent")
       /\ last.result.archived = count("archived")
       /\ last.result.expired = count("expired")
       /\ last.result.total = Cardinality(rows)
       /\ last.result.total = last.result.active + last.result.recent
                                + last.result.archived + last.result.expired

\* C17: pruneExpiredContexts(limit) deletes exactly min(limit, number of
\* EXPIRED snapshots) snapshots, EXPIRED being the current classification
\* calculateMemoryTier(lastAccessed, now), and returns that number; every
\* deleted snapshot is EXPIRED and none that survives has an older
\* lastAccessed (null is oldest); without a limit every EXPIRED snapshot is
\* deleted.
C17_PruneOldestUpToLimit ==
  [][last'.op = "pruneExpiredContexts" =>
       LET expired == {id \in DOMAIN store :
                         calculateMemoryTier(store[id].lastAccessed, now) = "expired"}
           deleted == DOMAIN store \ DOMAIN store'
       IN /\ deleted \subseteq expired
          /\ Cardinality(deleted) = IF last'.n < Cardinality(expired)
                                      THEN last'.n ELSE Cardinality(expired)
          /\ last'.result = Cardinality(deleted)
          /\ \A d \in deleted, c \in expired \ deleted :
               store[d].lastAccessed <= store[c].lastAccessed
          /\ last'.n = NoLimit => deleted = expired]_vars

\* C18: a prediction is stale exactly when lastPredicted is absent or its
\* age, now - lastPredicted, is at least the threshold; so a prediction
\* whose age equals the threshold is stale, by isPredictionStale and for
\* the query that selects the stale predictions to refresh.
C18_StaleAtThreshold ==
  LET stale(id, hours) ==
        \/ store[id].lastPredicted = NULL
        \/ now - store[id].lastPredicted >= hours * TicksPerHour
  IN /\ \A id \in DOMAIN store, hours \in StaleThresholds :
          isPredictionStale(store[id].lastPredicted, hours, now)
            <=> stale(id, hours)
     /\ last.op = "findStalePredictions" =>
          last.result = {id \in inScope(store, last.project) :
                           stale(id, last.n)}

\* C19: getHighValueContexts(project, minScore, limit) returns distinct
\* snapshots of the project whose persisted predictionScore is set and at
\* least minScore, in non-increasing score order, at most limit of them and
\* as many as qualify up to limit; no qualifying snapshot left out has a
\* higher score than one returned; no score is recomputed and the store is
\* unchanged.
C19_HighValueSortedCapped ==
  [][last'.op = "getHighValueContexts" =>
       LET q == last'.result
           minScore == last'.id
           limit == last'.n
           qualifying == {id \in DOMAIN store :
                            /\ store[id].project = last'.project
                            /\ store[id].predictionScore # NULL
                            /\ store[id].predictionScore >= minScore}
           returned == {q[i] : i \in DOMAIN q}
       IN /\ store' = store
          /\ returned \subseteq qualifying
          /\ Cardinality(returned) = Len(q)
          /\ Len(q) <= limit
          /\ Len(q) < limit => returned = qualifying
          /\ \A i, j \in DOMAIN q :
               i < j => store[q[i]].predictionScore >= store[q[j]].predictionScore
          /\ \A o \in qualifying \ returned, r \in returned :
               store[o].predictionScore <= store[r].predictionScore]_vars

C19_Witness ==
  /\ last.op = "getHighValueContexts"
  /\ last.n = 1
  /\ Len(last.result) = 1
  /\ \E o \in DOMAIN store :
       /\ store[o].project = last.project
       /\ store[o].predictionScore >= last.id
       /\ store[o].predictionScore # NULL
       /\ store[o].predictionScore < store[last.result[1]].predictionScore

\* C20: calculatePropagationReasons returns exactly the tokens whose
\* condition holds, each once: recently_accessed iff the last access is
\* less than 24 hours ago, causal_chain_root iff causedBy is absent,
\* high_access_frequency iff accessCount >= 10, moderate_access_frequency
\* iff 5 <= accessCount <= 9, active_memory_tier iff the current tier is
\* ACTIVE, decision_node iff actionType = decision.
C20_ReasonsMatchConditions ==
  probe.explained =>
    LET row == store[probe.id]
        returned == {probe.reasons[i] : i \in DOMAIN probe.reasons}
    IN /\ Cardinality(returned) = Len(probe.reasons)
       /\ returned \subseteq {"recently_accessed", "causal_chain_root",
                              "high_access_frequency",
                              "moderate_access_frequency",
                              "active_memory_tier", "decision_node"}
       /\ "recently_accessed" \in returned <=>
            (row.lastAccessed # NULL
               /\ now - row.lastAccessed < 24 * TicksPerHour)
       /\ "causal_chain_root" \in returned <=> row.causedBy = NULL
       /\ "high_access_frequency" \in returned <=> row.accessCount >= 10
       /\ "moderate_access_frequency" \in returned <=>
            (5 <= row.accessCount /\ row.accessCount <= 9)
       /\ "active_memory_tier" \in returned <=>
            calculateMemoryTier(row.lastAccessed, now) = "active"
       /\ "decision_node" \in returned <=> row.actionType = "decision"

C22_RecalculateRewritesScopeOnly ==
  [][last'.op = "recalculateAllTiers" =>
       /\ DOMAIN store' = DOMAIN store
       /\ \A id \in DOMAIN store :
            store'[id] =
              IF id \in inScope(store, last'.project)
                THEN [store[id] EXCEPT
                        !.tier = calculateMemoryTier(store[id].lastAccessed, now)]
                ELSE store[id]
       /\ last'.result =
            Cardinality({id \in inScope(store, last'.project) :
                           store[id].tier #
                             calculateMemoryTier(store[id].lastAccessed, now)})]_vars

\* A run over one project that rewrote a tier while a snapshot of another
\* project keeps its outdated tier.
C22_Witness ==
  /\ last.op = "recalculateAllTiers"
  /\ last.project # AllProjects
  /\ last.result >= 1
  /\ \E id \in DOMAIN store :
       /\ store[id].project # last.project
       /\ store[id].tier # calculateMemoryTier(store[id].lastAccessed, now)

\* The place of a tier in the order ACTIVE, RECENT, ARCHIVED, EXPIRED.
tierRank(tier) ==
  CASE tier = "active" -> 1
    [] tier = "recent" -> 2
    [] tier = "archived" -> 3
    [] tier = "expired" -> 4

\* C23: load_context(project, limit) returns at most limit snapshots of the
\* project, the most recently created first; every snapshot it returns gets
\* lastAccessed = now and accessCount + 1; a project without snapshots
\* gives the empty result and the store is unchanged.
C23_LoadNewestFirstAndTracks ==
  [][last'.op = "load_context" =>
       LET r == last'.result
       IN /\ Len(r) <= last'.n
          /\ \A i \in 1 .. Len(r) :
               /\ r[i].id \in DOMAIN store
               /\ store[r[i].id].project = last'.project
               /\ store'[r[i].id].lastAccessed = now
               /\ store'[r[i].id].accessCount = store[r[i].id].accessCount + 1
               /\ \A j \in 1 .. Len(r) : i < j => r[i].id > r[j].id
               /\ \A id \in inScope(store, last'.project) :
                    id > r[i].id => \E j \in 1 .. Len(r) : r[j].id = id
          /\ inScope(store, last'.project) = {} => (r = <<>> /\ store' = store)]_vars

\* A load of two snapshots of one project, both tracked.
C23_Witness ==
  /\ last.op = "load_context"
  /\ Len(last.result) = 2
  /\ \A i \in 1 .. 2 : store[last.result[i].id].lastAccessed = now

\* C24 as claimed: in every result of load_context the snapshots appear in
\* tier order, ACTIVE before RECENT before ARCHIVED before EXPIRED.
C24_LoadInTierOrder ==
  last.op = "load_context" =>
    \A i, j \in 1 .. Len(last.result) :
      i < j => tierRank(last.result[i].tier) <= tierRank(last.result[j].tier)

\* C25: right after save_context the new snapshot has tier ACTIVE,
\* accessCount 0 and no lastAccessed.
C25_SavedIsActiveUnaccessed ==
  last.op = "save" =>
    /\ last.id \in DOMAIN store
    /\ store[last.id].tier = "active"
    /\ store[last.id].accessCount = 0
    /\ store[last.id].lastAccessed = NULL

\* A save after the clock has advanced, next to a snapshot accessed before.
C25_Witness ==
  /\ last.op = "save"
  /\ now > StartTime
  /\ \E id \in DOMAIN store : store[id].accessCount >= 1

\* C26 as claimed: right after loadContextWithTracking the persisted tier
\* of the snapshot is calculateMemoryTier of its new lastAccessed, ACTIVE,
\* and the snapshot is not among the rows pruning deletes.
C26_LoadedIsActive ==
  last.op = "loadContext" =>
    /\ store[last.id].lastAccessed = now
    /\ store[last.id].tier = calculateMemoryTier(store[last.id].lastAccessed, now)
    /\ store[last.id].tier = "active"
    /\ last.id \notin expiredRows(store)

\* C27 as claimed: a snapshot without causality metadata (no causedBy, no
\* actionType) that was last accessed more than 168 hours ago and has an
\* accessCount of at most 1 is scored below 0.3 by calculatePredictionScore.
C27_OldRareScoresLow ==
  ( /\ probe.scored
    /\ store[probe.id].causedBy = NULL
    /\ store[probe.id].actionType = NoActionType
    /\ store[probe.id].lastAccessed # NULL
    /\ now - store[probe.id].lastAccessed > TemporalWeekHours * TicksPerHour
    /\ store[probe.id].accessCount <= 1 )
  => probe.predictionScore < 30

\* C28 as claimed: a batch operation in which the update of a record fails
\* does not fail: it ends with a count, never with a rejection.
C28_FailingRecordIsSkipped ==
  last.op # "recalculateAllTiers:rejected"

\* The stores a complete run of a batch operation can leave.
uninterruptedRuns(s, op, project, n, t) ==
  CASE op = "recalculateAllTiers:cancelled" ->
         {updateTiers(s, tierChanged(s, project, t), t)}
    [] op = "pruneExpiredContexts:cancelled" ->
         {deleteRows(s, D) : D \in pruneChoices(s, n)}
    [] op = "updateProjectPredictions:cancelled" ->
         {recalculatePredictions(s, stalePredictions(s, project, n, t), t)}

CancelledOps ==
  {"recalculateAllTiers:cancelled", "pruneExpiredContexts:cancelled",
   "updateProjectPredictions:cancelled"}

\* The rows a step wrote or deleted.
rowsWritten(s, s2) ==
  {id \in DOMAIN s : id \notin DOMAIN s2 \/ s2[id] # s[id]}

\* What C29 asks of a step that is a cancelled run, when resumable says for
\* which runs the rerun must end as an uninterrupted run does.
cancelledRunResumes(resumable) ==
  last'.op \in CancelledOps =>
    /\ last'.result = Cardinality(rowsWritten(store, store'))
    /\ last'.result >= 1
    /\ resumable =>
         uninterruptedRuns(store', last'.op, last'.project, last'.n, now)
           \subseteq uninterruptedRuns(store, last'.op, last'.project, last'.n, now)

C30_InvalidLimitFails ==
  [][last'.n \in InvalidLimits =>
       (last'.op = "InvalidInput" /\ store' = store)]_vars

\* The operations C31 names: access tracking, loading, tier and prediction
\* refresh, queries, the passage of time.
NonDestructiveOps ==
  {"trackAccess", "load_context", "recalculateAllTiers",
   "updateProjectPredictions", "reconstructReasoning", "getMemoryStats", "tick"}

C32_SecondUpdateUpdatesNone ==
  (last.op = "updateProjectPredictions" /\ last.again) => last.result = 0

\* C32 as amended: the same for every threshold above 0.
C32_SecondUpdateUpdatesNoneAboveZero ==
  (last.op = "updateProjectPredictions" /\ last.again /\ last.n > 0)
    => last.result = 0

\* A second run right after a first run that updated a snapshot, with a
\* threshold above 0.
C32_Witness ==
  /\ last.op = "updateProjectPredictions"
  /\ last.again
  /\ last.n > 0
  /\ last.prevResult >= 1
  /\ last.result = 0

\* The tier a snapshot has at a clock reading: calculateMemoryTier of its
\* lastAccessed.
currentTier(s, id, t) == calculateMemoryTier(s[id].lastAccessed, t)

C34_ReasonsAgreeWithScore ==
  (probe.scored /\ probe.explained) =>
    LET returned == {probe.reasons[i] : i \in DOMAIN probe.reasons}
    IN /\ "causal_chain_root" \in returned <=> probe.causalScore = CausalRoot
       /\ "high_access_frequency" \in returned <=>
            probe.frequencyScore = FrequencyHigh
       /\ "recently_accessed" \in returned <=>
            probe.temporalScore >= TemporalRecent
       /\ "active_memory_tier" \in returned =>
            "recently_accessed" \in returned

\* C35 as claimed: pruneExpiredContexts never deletes a snapshot after a
\* trackAccess running alongside it has set its lastAccessed to now: no
\* row a prune deletes has lastAccessed = now.
C35_NoPruneAfterAccess ==
  [][last'.op = "pruneExpiredContexts" =>
       \A id \in DOMAIN store \ DOMAIN store' :
         store[id].lastAccessed # now]_vars

\* The callers whose trackAccess(id) has completed.
completedCalls(id) ==
  {c \in DOMAIN calls : calls[c].pc = "done" /\ calls[c].id = id}

\* C36: however concurrent trackAccess calls on a snapshot interleave, none
\* is lost: accessCount has grown by the number of completed calls and
\* lastAccessed is the time of one of them.
C36_NoAccessLost ==
  \A id \in DOMAIN store :
    /\ store[id].accessCount = Cardinality(completedCalls(id))
    /\ completedCalls(id) = {} => store[id].lastAccessed = NULL
    /\ completedCalls(id) # {} =>
         store[id].lastAccessed \in {calls[c].at : c \in completedCalls(id)}

\* Two calls that read the snapshot before either wrote have both
\* completed.
C36_Witness ==
  \E id \in DOMAIN store :
    \E c, d \in completedCalls(id) :
      /\ c # d
      /\ calls[c].context.accessCount = calls[d].context.accessCount
      /\ store[id].accessCount >= 2

\* C37 as claimed: every lookup returns the latest committed content: the
\* stored lastAccessed and accessCount of a snapshot that exists, and
\* "absent" for one that does not, whatever was looked up before.
C37_LookupSeesStore ==
  last.op = "findById" => last.result = queryById(store, last.id)

\* C38 as claimed: however selectScenario, nextMessage, its delayed
\* callback, restart and backToScenarios interleave, the index of the
\* player stays between 0 and messages.length - 1 of the selected scenario.
C38_IndexInRange ==
  player.selectedScenario # "null" =>
    /\ player.currentMessageIndex >= 0
    /\ player.currentMessageIndex <=
         messagesLength(player.selectedScenario) - 1

\* C39 as claimed: after restart() or selectScenario() the index stays 0
\* until nextMessage() is called again, and after backToScenarios() it
\* stays 0 for as long as no scenario is selected.
C39_IndexStaysZeroUntilNext ==
  /\ ~player.nextCalled => player.currentMessageIndex = 0
  /\ player.selectedScenario = "null" => player.currentMessageIndex = 0

====
